---------------------------- MODULE Spec2Model ----------------------------
(***************************************************************************)
(* Model of webinterface/models.py of the cleaning-schedule management     *)
(* system: the fair-share assignment engine (Schedule.create_assignment,   *)
(* Schedule.create_assignments_over_timespan), the invalidation cascade    *)
(* (Schedule.save, Affiliation.save, TaskTemplate.save), the duty swap     *)
(* (DutySwitch.save) and the epoch-week date helpers.                      *)
(*                                                                         *)
(* The store is modelled row by row.  A CleaningWeek row is keyed by       *)
(* <<schedule, week>> (unique_together) and carries its reverse relations  *)
(* assignment_set and task_set; an Assignment row is identified by         *)
(* <<schedule, week, position>>.  Django runs in autocommit mode (the      *)
(* source opens no transaction), so every statement of a handler that      *)
(* precedes a raised exception stays written.                              *)
(***************************************************************************)
EXTENDS Integers, Sequences, FiniteSets, TLC

\* ------------------------------------------------------------------ bounds
NumCleaners == 2
MaxWeek == 1
MaxAffiliations == 2
MaxSwitches == 1
MaxAffWeek == 2
NumCallers == 2
NumFairCleaners == 3
MaxFairWeek == 2
MaxDay == 17
MaxCalls == 3

Cleaners == 1..NumCleaners
Weeks == 0..MaxWeek
AffWeeks == 0..MaxAffWeek
Callers == 1..NumCallers
FairWeeks == 0..MaxFairWeek
Days == -MaxDay..MaxDay
Schedules == {1}
Groups == {1, 2}

\* Schedule.CLEANERS_PER_DATE_CHOICES and Schedule.FREQUENCY_CHOICES
CLEANERS_PER_DATE_CHOICES == {1, 2}
FREQUENCY_CHOICES == {1, 2, 3}

\* ScheduleGroup.schedules: group 1 cleans every schedule, group 2 none
GroupSchedules(g) == IF g = 1 THEN Schedules ELSE {}

\* None of a nullable foreign key to Assignment
None == <<>>

VARIABLES
    now,            \* current_epoch_week()
    schedule,       \* Schedule rows: pk -> [cleaners_per_date, frequency, disabled]
    affiliation,    \* Affiliation rows in pk order: [cleaner, group, beginning, end]
    taskTemplate,   \* TaskTemplate rows: pk -> [schedule, task_disabled]
    cleaningWeek,   \* CleaningWeek rows: <<schedule, week>> -> [tasks_valid,
                    \*   assignments_valid, excluded, assignment_set, task_set]
    dutySwitch,     \* DutySwitch rows: pk -> [requester_assignment, acceptor_assignment]
    switchSeq,      \* number of DutySwitch rows inserted so far (the pk sequence)
    instance,       \* the DutySwitch object a caller still holds after save()
    call,           \* the calls in flight: caller -> the frame of its handler
    date,           \* [day, week]: a datetime.date, as its days since 1970-01-01,
                    \*   and an epoch week, as a caller of the date helpers holds them
    diary           \* [today, weekday, start_days_before, end_days_after, cleaned_by]:
                    \*   timezone.now().date(), Schedule.weekday, the windows of the
                    \*   TaskTemplates by pk, and Task.cleaned_by where it is set

vars == <<now, schedule, affiliation, taskTemplate, cleaningWeek, dutySwitch,
          switchSeq, instance, call, date, diary>>

\* ------------------------------------------------------------ small helpers
Min(S) == CHOOSE x \in S : \A y \in S : x <= y
Max(S) == CHOOSE x \in S : \A y \in S : x >= y

\* a function without the keys in K
Without(f, K) == [k \in DOMAIN f \ K |-> f[k]]

\* the function f with the value v at the key k
Put(f, k, v) == [j \in DOMAIN f \cup {k} |-> IF j = k THEN v ELSE f[j]]

\* a CleaningWeek row
CleaningWeekRow(tv, av, ex, as, ts) ==
    [tasks_valid |-> tv, assignments_valid |-> av, excluded |-> ex,
     assignment_set |-> as, task_set |-> ts]

\* the row r with one field changed
WithAssignmentsValid(r, v) ==
    CleaningWeekRow(r.tasks_valid, v, r.excluded, r.assignment_set, r.task_set)
WithAssignmentSet(r, q) ==
    CleaningWeekRow(r.tasks_valid, r.assignments_valid, r.excluded, q, r.task_set)
WithExcluded(r, ex) ==
    CleaningWeekRow(r.tasks_valid, r.assignments_valid, ex, r.assignment_set, r.task_set)

\* a DutySwitch row
DutySwitchRow(requester, acceptor) ==
    [requester_assignment |-> requester, acceptor_assignment |-> acceptor]

\* an Assignment object in memory
AssignmentObject(id, cleaner) == [id |-> id, cleaner |-> cleaner]

\* the ids <<schedule, week, position>> of the Assignment rows of the store cw
AssignmentIds(cw) ==
    UNION {{<<k[1], k[2], i>> : i \in DOMAIN cw[k].assignment_set} : k \in DOMAIN cw}

\* Assignment.cleaner of the row a
AssignmentCleaner(cw, a) == cw[<<a[1], a[2]>>].assignment_set[a[3]]

\* Assignment.cleaning_week of the row a
AssignmentWeek(a) == <<a[1], a[2]>>

\* ----------------------------------------------------------- the calendar
\* A datetime.date is its number of days since 1970-01-01, a timestamp its
\* seconds since 1970-01-01T00:00Z, a struct_time the seconds its fields read
\* as a wall clock.  The zone of the process enters by utcoffset, its standard
\* offset in seconds, and dst, the seconds it is off the standard offset at
\* the moment converted (tm_isdst); time.gmtime gives the wall clock of UTC
\* with tm_isdst = 0.
SecondsPerDay == 24 * 60 * 60
UtcOffsets == {-12 * 60 * 60, 0, 60 * 60, 14 * 60 * 60}
DaylightSavings == {-60 * 60, 0, 60 * 60}

\* int(n / d) of Python for d > 0: the quotient truncated toward zero
int_of_quotient(n, d) == IF n >= 0 THEN n \div d ELSE -((-n) \div d)

\* calendar.timegm(date.timetuple()): midnight of the day, read as UTC
timegm(day) == day * SecondsPerDay

\* time.mktime of a struct_time with tm_isdst = 0: the wall clock read as the
\* standard time of the zone
mktime(wall, utcoffset) == wall - utcoffset

\* datetime.date.fromtimestamp: the day of the local wall clock
fromtimestamp(timestamp, utcoffset, dst) == (timestamp + utcoffset + dst) \div SecondsPerDay

date_to_epoch_week(day) ==
    LET epoch_seconds == timegm(day)
    IN int_of_quotient(epoch_seconds + 3 * SecondsPerDay, 7 * SecondsPerDay)

epoch_week_to_monday(week, utcoffset, dst) ==
    LET epoch_seconds == ((week * 7) - 3) * SecondsPerDay
    IN fromtimestamp(mktime(epoch_seconds, utcoffset), utcoffset, dst)

epoch_week_to_sunday(week, utcoffset, dst) ==
    LET epoch_seconds == ((week * 7) + 3) * SecondsPerDay
    IN fromtimestamp(mktime(epoch_seconds, utcoffset), utcoffset, dst)

\* the date and the week of a caller that has converted nothing yet
NoDate == [day |-> 0, week |-> 0]

\* the diary of a run in which no date is compared with today
NoDiary == [today |-> 0, weekday |-> 0, start_days_before |-> <<>>,
            end_days_after |-> <<>>, cleaned_by |-> <<>>]

\* ------------------------------------------------------------- the engine
\* Schedule.occurs_in_week
occurs_in_week(s, week) ==
    \/ schedule[s].frequency = 1
    \/ schedule[s].frequency = 2 /\ week % 2 = 0
    \/ schedule[s].frequency = 3 /\ week % 2 = 1

\* an active_in_week_for_schedule that leaves out group__schedules=schedule
active_in_week_for_schedule_AnyGroup(week, s) ==
    {i \in DOMAIN affiliation :
        /\ affiliation[i].beginning <= week
        /\ affiliation[i].end >= week}

\* AffiliationQuerySet.active_in_week_for_schedule: the pks of the rows
active_in_week_for_schedule(week, s) ==
    {i \in DOMAIN affiliation :
        /\ affiliation[i].beginning <= week
        /\ affiliation[i].end >= week
        /\ s \in GroupSchedules(affiliation[i].group)}

\* Affiliation.Meta.ordering = ('-end',): a queryset as the list it iterates
RECURSIVE OrderedByEnd(_)
OrderedByEnd(S) ==
    IF S = {} THEN <<>>
    ELSE LET m == CHOOSE i \in S : \A j \in S :
                      \/ affiliation[i].end > affiliation[j].end
                      \/ affiliation[i].end = affiliation[j].end /\ i <= j
         IN <<m>> \o OrderedByEnd(S \ {m})

\* a loop that keeps the interval of the first Affiliation it visits
NarrowTimespan_First(q, i, minimal_week_set) ==
    IF Len(q) = 0 THEN minimal_week_set
    ELSE [beginning |-> affiliation[q[1]].beginning, end |-> affiliation[q[1]].end]

\* the loop of Schedule.constant_affiliation_timespan from position i on
RECURSIVE NarrowTimespan(_, _, _)
NarrowTimespan(q, i, minimal_week_set) ==
    IF i > Len(q) THEN minimal_week_set
    ELSE LET a == affiliation[q[i]]
         IN IF DOMAIN minimal_week_set = {}
            THEN NarrowTimespan(q, i + 1, [beginning |-> a.beginning, end |-> a.end])
            ELSE NarrowTimespan(q, i + 1,
                    [beginning |-> IF a.beginning > minimal_week_set.beginning
                                   THEN a.beginning ELSE minimal_week_set.beginning,
                     end |-> IF a.end < minimal_week_set.end
                             THEN a.end ELSE minimal_week_set.end])

\* Schedule.constant_affiliation_timespan: <<>> stands for the empty dict
constant_affiliation_timespan(week, s) ==
    NarrowTimespan(OrderedByEnd(active_in_week_for_schedule(week, s)), 1, <<>>)

\* a deployment_ratio that is 0.0 for everybody
deployment_ratio_Zero(cw, cleaner, s, from_week, to_week) == <<0, 1>>

\* Cleaner.deployment_ratio: the quotient own/all as the pair <<own, all>>,
\* 0.0 as <<0, 1>>
deployment_ratio(cw, cleaner, s, from_week, to_week) ==
    LET all_assignments == {a \in AssignmentIds(cw) :
                               a[1] = s /\ a[2] >= from_week /\ a[2] <= to_week}
        own == {a \in all_assignments : AssignmentCleaner(cw, a) = cleaner}
    IN IF Cardinality(all_assignments) # 0
       THEN <<Cardinality(own), Cardinality(all_assignments)>>
       ELSE <<0, 1>>

\* comparison of two quotients
RatioLess(r1, r2) == r1[1] * r2[2] < r2[1] * r1[2]
RatioEq(r1, r2) == r1[1] * r2[2] = r2[1] * r1[2]

\* sorted(ratios, key=itemgetter(1)): a stable sort
RECURSIVE SortedByRatio(_)
SortedByRatio(q) ==
    IF q = <<>> THEN <<>>
    ELSE LET m == Min({i \in DOMAIN q : \A j \in DOMAIN q : ~RatioLess(q[j][2], q[i][2])})
         IN <<q[m]>> \o SortedByRatio([i \in 1..Len(q) - 1 |-> IF i < m THEN q[i] ELSE q[i + 1]])

\* Schedule.deployment_ratios: the list of <<cleaner, ratio>>
deployment_ratios(cw, week, s) ==
    LET minimal_week_set == constant_affiliation_timespan(week, s)
        q == OrderedByEnd(active_in_week_for_schedule(week, s))
    IN SortedByRatio([i \in DOMAIN q |->
            <<affiliation[q[i]].cleaner,
              deployment_ratio(cw, affiliation[q[i]].cleaner, s,
                               minimal_week_set.beginning, minimal_week_set.end)>>])

\* Cleaner.nr_assignments_in_week: over every schedule
nr_assignments_in_week(cw, cleaner, week) ==
    Cardinality({a \in AssignmentIds(cw) : a[2] = week /\ AssignmentCleaner(cw, a) = cleaner})

\* a set of numbers as its sorted list
RECURSIVE SortedList(_)
SortedList(S) == IF S = {} THEN <<>> ELSE <<Min(S)>> \o SortedList(S \ {Min(S)})

\* grouped_by_ratios of create_assignment: the cleaners of each distinct ratio
\* value, in ascending order of the value
RECURSIVE grouped_by_ratios(_)
grouped_by_ratios(ratios) ==
    IF ratios = <<>> THEN <<>>
    ELSE LET val == ratios[1][2]
             same == {i \in DOMAIN ratios : RatioEq(ratios[i][2], val)}
             rest == {i \in DOMAIN ratios : ~RatioEq(ratios[i][2], val)}
         IN <<{ratios[i][1] : i \in same}>> \o
            grouped_by_ratios([i \in 1..Cardinality(rest) |->
                                  ratios[i + Cardinality(same)]])

\* grouped_by_assignment_count of create_assignment for one ratio group
grouped_by_assignment_count(cw, same_ratio, excluded, week) ==
    LET non_excluded == same_ratio \ excluded
        nr_assignments == SortedList({nr_assignments_in_week(cw, x, week) : x \in same_ratio})
    IN [n \in DOMAIN nr_assignments |->
           {x \in non_excluded : nr_assignments_in_week(cw, x, week) = nr_assignments[n]}]

\* The two nested loops of create_assignment from ratio group g on: the set of
\* cleaners random.choice may return, {} when it raises IndexError on an empty
\* list.  The for ... else branch takes ratios[0][0].
RECURSIVE Choices(_, _, _, _, _)
Choices(cw, ratios, excluded, week, g) ==
    LET groups == grouped_by_ratios(ratios)
    IN IF g > Len(groups) THEN {ratios[1][1]}
       ELSE LET counts == grouped_by_assignment_count(cw, groups[g], excluded, week)
            IN IF Len(counts) > 0 THEN counts[1]
               ELSE Choices(cw, ratios, excluded, week, g + 1)

\* ------------------------------------------------------------ the store
\* a new CleaningWeek row: the field defaults of the model class
NewCleaningWeek == CleaningWeekRow(FALSE, FALSE, {}, <<>>, <<>>)

\* What deleting every Assignment row of the CleaningWeek k does to the
\* DutySwitch rows ds: requester_assignment is on_delete=CASCADE,
\* acceptor_assignment is on_delete=SET_NULL.
OnDeleteAssignments(ds, k) ==
    LET gone == {p \in DOMAIN ds : AssignmentWeek(ds[p].requester_assignment) = k}
    IN [p \in DOMAIN ds \ gone |->
          IF ds[p].acceptor_assignment # None
             /\ AssignmentWeek(ds[p].acceptor_assignment) = k
          THEN DutySwitchRow(ds[p].requester_assignment, None)
          ELSE ds[p]]

\* CleaningWeek.task_templates_missing: the enabled templates of the schedule
\* that no Task of the week uses
task_templates_missing(cw, k) ==
    {t \in DOMAIN taskTemplate :
        /\ taskTemplate[t].schedule = k[1]
        /\ ~taskTemplate[t].task_disabled
        /\ \A i \in DOMAIN cw[k].task_set : cw[k].task_set[i] # t}

\* CleaningWeek.create_missing_tasks
create_missing_tasks(cw, k) ==
    Put(cw, k, CleaningWeekRow(TRUE, cw[k].assignments_valid, cw[k].excluded,
                               cw[k].assignment_set,
                               cw[k].task_set \o SortedList(task_templates_missing(cw, k))))

\* lines 164-169 without the delete of line 168: the week is set valid and
\* keeps its Assignments
Prepare_KeepAssignments(cw, ds, k) ==
    LET cw1 == IF k \in DOMAIN cw THEN cw ELSE Put(cw, k, NewCleaningWeek)
        cw2 == IF ~cw1[k].tasks_valid THEN create_missing_tasks(cw1, k) ELSE cw1
    IN <<Put(cw2, k, WithAssignmentsValid(cw2[k], TRUE)), ds>>

\* lines 164-169 with one flag for both tests: assignments_valid also decides
\* whether create_missing_tasks runs
Prepare_OneFlag(cw, ds, k) ==
    LET cw1 == IF k \in DOMAIN cw THEN cw ELSE Put(cw, k, NewCleaningWeek)
        cw2 == IF ~cw1[k].assignments_valid THEN create_missing_tasks(cw1, k) ELSE cw1
    IN IF ~cw2[k].assignments_valid
       THEN <<Put(cw2, k, WithAssignmentsValid(WithAssignmentSet(cw2[k], <<>>), TRUE)),
              OnDeleteAssignments(ds, k)>>
       ELSE <<cw2, ds>>

\* lines 164-169 of create_assignment: get_or_create, the tasks, the
\* assignments of an invalid week.  Gives <<cw, ds>>.
Prepare(cw, ds, k) ==
    LET cw1 == IF k \in DOMAIN cw THEN cw ELSE Put(cw, k, NewCleaningWeek)
        cw2 == IF ~cw1[k].tasks_valid THEN create_missing_tasks(cw1, k) ELSE cw1
    IN IF ~cw2[k].assignments_valid
       THEN <<Put(cw2, k, WithAssignmentsValid(WithAssignmentSet(cw2[k], <<>>), TRUE)),
              OnDeleteAssignments(ds, k)>>
       ELSE <<cw2, ds>>

\* a slip in the test of line 171: > for >=
NoOpenPosition_OffByOne(count, s) == count > schedule[s].cleaners_per_date

\* the test of line 171 of create_assignment
NoOpenPosition(count, s) == count >= schedule[s].cleaners_per_date

\* lines 149-175 with the tests of lines 149 and 153 in the other order: a
\* disabled Schedule still loses a CleaningWeek in a week it does not occur in
open_position_OffCycleFirst(cw, ds, s, week) ==
    LET k == <<s, week>>
    IN IF ~occurs_in_week(s, week)
       THEN [cw |-> Without(cw, {k}),
             ds |-> IF k \in DOMAIN cw THEN OnDeleteAssignments(ds, k) ELSE ds,
             result |-> IF schedule[s].disabled THEN "disabled" ELSE "off-cycle"]
       ELSE IF schedule[s].disabled
       THEN [cw |-> cw, ds |-> ds, result |-> "disabled"]
       ELSE LET pre == Prepare(cw, ds, k)
            IN IF NoOpenPosition(Len(pre[1][k].assignment_set), s)
               THEN [cw |-> pre[1], ds |-> pre[2], result |-> "full"]
               ELSE [cw |-> pre[1], ds |-> pre[2], result |-> "open"]

\* lines 149-175 without the delete of line 156: a CleaningWeek in a week
\* the Schedule does not occur in is left where it is
open_position_KeepStray(cw, ds, s, week) ==
    LET k == <<s, week>>
    IN IF schedule[s].disabled
       THEN [cw |-> cw, ds |-> ds, result |-> "disabled"]
       ELSE IF ~occurs_in_week(s, week)
       THEN [cw |-> cw, ds |-> ds, result |-> "off-cycle"]
       ELSE LET pre == Prepare(cw, ds, k)
            IN IF NoOpenPosition(Len(pre[1][k].assignment_set), s)
               THEN [cw |-> pre[1], ds |-> pre[2], result |-> "full"]
               ELSE [cw |-> pre[1], ds |-> pre[2], result |-> "open"]

\* lines 149-175 of create_assignment, up to the test of the open position:
\* [cw, ds, result], result "open" when the call goes on to the selection and
\* else the reason of its return False
open_position(cw, ds, s, week) ==
    LET k == <<s, week>>
    IN IF schedule[s].disabled
       THEN [cw |-> cw, ds |-> ds, result |-> "disabled"]
       ELSE IF ~occurs_in_week(s, week)
       THEN [cw |-> Without(cw, {k}),
             ds |-> IF k \in DOMAIN cw THEN OnDeleteAssignments(ds, k) ELSE ds,
             result |-> "off-cycle"]
       ELSE LET pre == Prepare(cw, ds, k)
            IN IF NoOpenPosition(Len(pre[1][k].assignment_set), s)
               THEN [cw |-> pre[1], ds |-> pre[2], result |-> "full"]
               ELSE [cw |-> pre[1], ds |-> pre[2], result |-> "open"]

\* lines 177-215 of create_assignment, the selection and the create on the
\* store <<cw, ds>>: the set of outcomes [cw, ds, result, cleaner].  result is
\* "created" for the Assignment it returns, "IndexError" for random.choice of
\* an empty list, "no-ratios" for the return False of line 180.
select_and_create(cw, ds, s, week) ==
    LET k == <<s, week>>
        ratios == deployment_ratios(cw, week, s)
        choices == Choices(cw, ratios, cw[k].excluded, week, 1)
    IN IF ratios = <<>>
       THEN {[cw |-> cw, ds |-> ds, result |-> "no-ratios", cleaner |-> 0]}
       ELSE IF choices = {}
       THEN {[cw |-> cw, ds |-> ds, result |-> "IndexError", cleaner |-> 0]}
       ELSE {[cw |-> Put(cw, k, WithAssignmentSet(cw[k], Append(cw[k].assignment_set, c))),
              ds |-> ds, result |-> "created", cleaner |-> c] : c \in choices}

\* Schedule.create_assignment on the store <<cw, ds>>: the set of its outcomes
\* [cw, ds, result, cleaner]
create_assignment(cw, ds, s, week) ==
    LET o == open_position(cw, ds, s, week)
    IN IF o.result # "open"
       THEN {[cw |-> o.cw, ds |-> o.ds, result |-> o.result, cleaner |-> 0]}
       ELSE select_and_create(o.cw, o.ds, s, week)

\* a slip in line 132: one call per week in place of the while loop
FillWeek_Once(cw, ds, s, week) == create_assignment(cw, ds, s, week)

\* the while loop of create_assignments_over_timespan for one week: the
\* outcomes of the call that ends it
RECURSIVE FillWeek(_, _, _, _)
FillWeek(cw, ds, s, week) ==
    UNION {IF o.result = "created" THEN FillWeek(o.cw, o.ds, s, week) ELSE {o} :
              o \in create_assignment(cw, ds, s, week)}

\* the while loop of line 132 with its successful calls counted: the outcomes
\* [result, calls, cw] of the call that ends it after calls successful ones;
\* result is "running" when the loop is still going after MaxCalls of them
RECURSIVE FillWeekCounted(_, _, _, _, _)
FillWeekCounted(cw, ds, s, week, calls) ==
    IF calls > MaxCalls
    THEN {[result |-> "running", calls |-> calls, cw |-> cw]}
    ELSE UNION {IF o.result = "created"
                THEN FillWeekCounted(o.cw, o.ds, s, week, calls + 1)
                ELSE {[result |-> o.result, calls |-> calls, cw |-> o.cw]} :
                   o \in create_assignment(cw, ds, s, week)}

\* Schedule.create_assignments_over_timespan from week on: the outcomes of its
\* last call of create_assignment; an IndexError ends it
RECURSIVE FillWeeks(_, _, _, _, _)
FillWeeks(cw, ds, s, week, max_week) ==
    UNION {IF o.result = "IndexError" \/ week = max_week THEN {o}
           ELSE FillWeeks(o.cw, o.ds, s, week + 1, max_week) :
              o \in FillWeek(cw, ds, s, week)}

create_assignments_over_timespan(cw, ds, s, start_week, end_week) ==
    FillWeeks(cw, ds, s, Min({start_week, end_week}), Max({start_week, end_week}))

\* ------------------------------------------------------ the invalidation
\* an invalidation that deletes the Assignments at once
Invalidate_Eager(cw, K) ==
    [k \in DOMAIN cw |->
        IF k \in K
        THEN CleaningWeekRow(cw[k].tasks_valid, FALSE, cw[k].excluded, <<>>, cw[k].task_set)
        ELSE cw[k]]

\* CleaningWeek.set_assignments_valid_field(False) on the rows K
Invalidate(cw, K) ==
    [k \in DOMAIN cw |-> IF k \in K THEN WithAssignmentsValid(cw[k], FALSE) ELSE cw[k]]

\* set_assignments_valid_field called where set_tasks_valid_field is meant
InvalidateTasks_AssignmentsField(cw, K) ==
    [k \in DOMAIN cw |->
        IF k \in K
        THEN CleaningWeekRow(cw[k].tasks_valid, FALSE, cw[k].excluded,
                             cw[k].assignment_set, cw[k].task_set)
        ELSE cw[k]]

\* CleaningWeek.set_tasks_valid_field(False) on the rows K
InvalidateTasks(cw, K) ==
    [k \in DOMAIN cw |->
        IF k \in K
        THEN CleaningWeekRow(FALSE, cw[k].assignments_valid, cw[k].excluded,
                             cw[k].assignment_set, cw[k].task_set)
        ELSE cw[k]]

\* the test of Schedule.save: previous_frequency and previous_cleaners_per_date
\* are the values the instance was loaded with
ScheduleChanged(previous, current) ==
    \/ previous.frequency # current.frequency
    \/ previous.cleaners_per_date # current.cleaners_per_date

\* cleaningweek_set.filter(week__gt=current_epoch_week()) of Schedule.save
WeeksAfterNow(cw, s) == {k \in DOMAIN cw : k[1] = s /\ k[2] > now}

\* Affiliation.date_validator: TRUE when it raises ValidationError.  pk is 0
\* for an instance that is not stored yet.
date_validator(affiliation_pk, cleaner, beginning, end) ==
    LET other_affiliations == {i \in DOMAIN affiliation :
                                  affiliation[i].cleaner = cleaner /\ i # affiliation_pk}
    IN \/ beginning > end
       \/ \E i \in other_affiliations :
             affiliation[i].beginning >= beginning /\ affiliation[i].beginning <= end
       \/ \E i \in other_affiliations :
             affiliation[i].end >= beginning /\ affiliation[i].end <= end

\* the two querysets of Affiliation.save joined with | in place of ^
cleaning_weeks_invalidated_Union(cw, previous_beginning, previous_end, beginning, end) ==
    {k \in DOMAIN cw :
        \/ /\ k[2] >= Min({previous_beginning, beginning})
           /\ k[2] < Max({previous_beginning, beginning})
        \/ /\ k[2] > Min({previous_end, end})
           /\ k[2] <= Max({previous_end, end})}

\* cleaning_weeks_invalidated of Affiliation.save
cleaning_weeks_invalidated(cw, previous_beginning, previous_end, beginning, end) ==
    LET min_beginning == Min({previous_beginning, beginning})
        max_beginning == Max({previous_beginning, beginning})
        beginning_affects == {k \in DOMAIN cw :
            k[2] >= min_beginning /\ k[2] <= max_beginning /\ k[2] # max_beginning}
        min_end == Min({previous_end, end})
        max_end == Max({previous_end, end})
        end_affects == {k \in DOMAIN cw :
            k[2] >= min_end /\ k[2] <= max_end /\ k[2] # min_end}
    IN (beginning_affects \ end_affects) \cup (end_affects \ beginning_affects)

\* an Affiliation row
AffiliationRow(cleaner, group, beginning, end) ==
    [cleaner |-> cleaner, group |-> group, beginning |-> beginning, end |-> end]

\* an Affiliation.save that calls date_validator after the invalidation loop
Affiliation_save_ValidatedLast(aff, cw, pk, row, previous_beginning, previous_end) ==
    LET invalidated == IF previous_beginning # row.beginning \/ previous_end # row.end
                       THEN Invalidate(cw, cleaning_weeks_invalidated(cw, previous_beginning,
                                              previous_end, row.beginning, row.end))
                       ELSE cw
    IN IF date_validator(pk, row.cleaner, row.beginning, row.end)
       THEN [aff |-> aff, cw |-> invalidated, result |-> "ValidationError"]
       ELSE [aff |-> IF pk = 0 THEN Append(aff, row) ELSE Put(aff, pk, row),
             cw |-> invalidated, result |-> "saved"]

\* an Affiliation.save whose first save invalidates the weeks of the new
\* interval, as if previous_beginning and previous_end were unset before it
Affiliation_save_InvalidatesNew(aff, cw, pk, row, previous_beginning, previous_end) ==
    IF date_validator(pk, row.cleaner, row.beginning, row.end)
    THEN [aff |-> aff, cw |-> cw, result |-> "ValidationError"]
    ELSE [aff |-> IF pk = 0 THEN Append(aff, row) ELSE Put(aff, pk, row),
          cw |-> IF pk = 0
                 THEN Invalidate(cw, {k \in DOMAIN cw :
                                         k[2] >= row.beginning /\ k[2] <= row.end})
                 ELSE IF previous_beginning # row.beginning \/ previous_end # row.end
                 THEN Invalidate(cw, cleaning_weeks_invalidated(cw, previous_beginning,
                                        previous_end, row.beginning, row.end))
                 ELSE cw,
          result |-> "saved"]

\* Affiliation.save of an instance with the fields row, constructed or loaded
\* with previous_beginning and previous_end; pk is 0 before the first save.
\* Gives [aff, cw, result]; the validator runs before anything is written.
Affiliation_save(aff, cw, pk, row, previous_beginning, previous_end) ==
    IF date_validator(pk, row.cleaner, row.beginning, row.end)
    THEN [aff |-> aff, cw |-> cw, result |-> "ValidationError"]
    ELSE [aff |-> IF pk = 0 THEN Append(aff, row) ELSE Put(aff, pk, row),
          cw |-> IF previous_beginning # row.beginning \/ previous_end # row.end
                 THEN Invalidate(cw, cleaning_weeks_invalidated(cw, previous_beginning,
                                        previous_end, row.beginning, row.end))
                 ELSE cw,
          result |-> "saved"]

\* ------------------------------------------------------------- the swap
\* the week filter of eligible_switching_destination_candidates with
\* week__gte for week__gt
eligible_switching_destination_candidates_Gte(cw, source_assignment) ==
    LET same_schedule == {a \in AssignmentIds(cw) : a[1] = source_assignment[1]}
        later == {a \in same_schedule : a[2] >= source_assignment[2]}
    IN later \ {a \in later :
                   \E x \in cw[AssignmentWeek(a)].excluded :
                       x = AssignmentCleaner(cw, source_assignment)}

\* AssignmentQuerySet.eligible_switching_destination_candidates on
\* Assignment.objects: two filters, then the exclude over the many-to-many
\* relation CleaningWeek.excluded
eligible_switching_destination_candidates(cw, source_assignment) ==
    LET same_schedule == {a \in AssignmentIds(cw) : a[1] = source_assignment[1]}
        later == {a \in same_schedule : a[2] > source_assignment[2]}
    IN later \ {a \in later :
                   \E x \in cw[AssignmentWeek(a)].excluded :
                       x = AssignmentCleaner(cw, source_assignment)}

\* DutySwitch.possible_acceptors of a switch whose requester_assignment is r:
\* eligible_switching_destination_candidates without the requester's cleaner
possible_acceptors(cw, r) ==
    LET candidates == eligible_switching_destination_candidates(cw, r)
    IN candidates \ {a \in candidates : AssignmentCleaner(cw, a) = AssignmentCleaner(cw, r)}

\* a DutySwitch object in memory: __previous_acceptor and the two cached
\* Assignment objects
DutySwitchObject(pk, previous, requester, acceptor) ==
    [pk |-> pk, previous_acceptor |-> previous,
     requester_assignment |-> requester, acceptor_assignment |-> acceptor]

NoInstance == DutySwitchObject(0, None, AssignmentObject(None, 0), AssignmentObject(None, 0))

\* an Assignment object read from the store
LoadAssignment(cw, a) ==
    IF a = None THEN AssignmentObject(None, 0)
    ELSE AssignmentObject(a, AssignmentCleaner(cw, a))

\* Assignment.save of the object obj
SaveAssignment(cw, obj) ==
    LET k == AssignmentWeek(obj.id)
    IN Put(cw, k, WithAssignmentSet(cw[k],
           [i \in DOMAIN cw[k].assignment_set |->
               IF i = obj.id[3] THEN obj.cleaner ELSE cw[k].assignment_set[i]]))

\* the DutySwitch pk as a caller loads it and sets its acceptor_assignment to a
Accepting(cw, ds, pk, a) ==
    DutySwitchObject(pk, ds[pk].acceptor_assignment,
                     LoadAssignment(cw, ds[pk].requester_assignment),
                     LoadAssignment(cw, a))

\* the test of line 735 of DutySwitch.save
SwapDue(obj) == obj.previous_acceptor = None /\ obj.acceptor_assignment.id # None

\* super().save() of DutySwitch.save: the row of the object is written
StoreSwitch(ds, obj) ==
    Put(ds, obj.pk, DutySwitchRow(obj.requester_assignment.id, obj.acceptor_assignment.id))

\* line 736 of DutySwitch.save: the requester's cleaner joins the excluded
\* of the requester's CleaningWeek
AddExcluded(cw, obj) ==
    LET k == AssignmentWeek(obj.requester_assignment.id)
    IN Put(cw, k, WithExcluded(cw[k], cw[k].excluded \cup {obj.requester_assignment.cleaner}))

\* a slip in line 740: the requester's Assignment keeps its cleaner
RequesterSwapped_Kept(obj) == obj.requester_assignment

\* line 740: the requester's Assignment object with the acceptor's cleaner
RequesterSwapped(obj) ==
    AssignmentObject(obj.requester_assignment.id, obj.acceptor_assignment.cleaner)

\* line 743: the acceptor's Assignment object with source_cleaner
AcceptorSwapped(obj, source_cleaner) ==
    AssignmentObject(obj.acceptor_assignment.id, source_cleaner)

\* DutySwitch.save of the object obj: [cw, ds, obj] afterwards
DutySwitch_save(cw, ds, obj) ==
    IF SwapDue(obj)
    THEN LET cw1 == AddExcluded(cw, obj)
             source_cleaner == obj.requester_assignment.cleaner
             requester == RequesterSwapped(obj)
             cw2 == SaveAssignment(cw1, requester)
             acceptor == AcceptorSwapped(obj, source_cleaner)
             cw3 == SaveAssignment(cw2, acceptor)
         IN [cw |-> cw3, ds |-> StoreSwitch(ds, obj),
             obj |-> DutySwitchObject(obj.pk, obj.previous_acceptor, requester, acceptor)]
    ELSE [cw |-> cw, ds |-> StoreSwitch(ds, obj), obj |-> obj]

\* the frame of a handler in flight: the statement it is at and its locals
Frame(pc, s, week, obj, source_cleaner) ==
    [pc |-> pc, schedule |-> s, week |-> week, obj |-> obj, source_cleaner |-> source_cleaner]

\* a caller that runs no handler
Idle == Frame("idle", 0, 0, NoInstance, 0)

\* ----------------------------------------------------------------- Init
Init ==
    /\ now = 0
    /\ schedule = [s \in Schedules |->
                      [cleaners_per_date |-> 1, frequency |-> 1, disabled |-> FALSE]]
    /\ affiliation = [c \in Cleaners |-> AffiliationRow(c, 1, 0, MaxWeek)]
    /\ taskTemplate = [t \in {1, 2} |-> [schedule |-> 1, task_disabled |-> (t = 2)]]
    /\ cleaningWeek = <<>>
    /\ dutySwitch = <<>>
    /\ switchSeq = 0
    /\ instance = NoInstance
    /\ call = [c \in Callers |-> Idle]
    /\ date = NoDate
    /\ diary = NoDiary

\* -------------------------------------------------------------- actions
\* the clock: current_epoch_week() grows
Tick ==
    /\ now < MaxWeek
    /\ now' = now + 1
    /\ instance' = NoInstance
    /\ UNCHANGED <<diary, date, call, schedule, affiliation, taskTemplate, cleaningWeek, dutySwitch, switchSeq>>

\* fillOccurrence: one call of Schedule.create_assignment
FillOccurrence(s, week) ==
    \E o \in create_assignment(cleaningWeek, dutySwitch, s, week) :
        /\ cleaningWeek' = o.cw
        /\ dutySwitch' = o.ds
        /\ instance' = NoInstance
        /\ UNCHANGED <<diary, date, call, now, schedule, affiliation, taskTemplate, switchSeq>>

\* fillRange: Schedule.create_assignments_over_timespan
FillRange(s, start_week, end_week) ==
    \E o \in create_assignments_over_timespan(cleaningWeek, dutySwitch, s, start_week, end_week) :
        /\ cleaningWeek' = o.cw
        /\ dutySwitch' = o.ds
        /\ instance' = NoInstance
        /\ UNCHANGED <<diary, date, call, now, schedule, affiliation, taskTemplate, switchSeq>>

\* a Schedule is loaded, its frequency and cleaners_per_date are set, and it is saved
ScheduleSave(s, frequency, cleaners_per_date) ==
    LET current == [cleaners_per_date |-> cleaners_per_date, frequency |-> frequency,
                    disabled |-> schedule[s].disabled]
    IN /\ schedule' = Put(schedule, s, current)
       /\ cleaningWeek' = IF ScheduleChanged(schedule[s], current)
                          THEN Invalidate(cleaningWeek, WeeksAfterNow(cleaningWeek, s))
                          ELSE cleaningWeek
       /\ instance' = NoInstance
       /\ UNCHANGED <<diary, date, call, now, affiliation, taskTemplate, dutySwitch, switchSeq>>

\* a Schedule is loaded, its disabled is set, and it is saved: frequency and
\* cleaners_per_date are the loaded ones, so the test of line 221 fails
ScheduleSaveDisabled(s, disabled) ==
    /\ schedule' = Put(schedule, s, [cleaners_per_date |-> schedule[s].cleaners_per_date,
                                     frequency |-> schedule[s].frequency,
                                     disabled |-> disabled])
    /\ instance' = NoInstance
    /\ UNCHANGED <<diary, date, call, now, affiliation, taskTemplate, cleaningWeek, dutySwitch,
                   switchSeq>>

\* Affiliation(cleaner, group, beginning, end).save() of a new instance:
\* previous_beginning and previous_end are the values it was constructed with
AffiliationCreate(cleaner, group, beginning, end) ==
    /\ Len(affiliation) < MaxAffiliations
    /\ LET o == Affiliation_save(affiliation, cleaningWeek, 0,
                                 AffiliationRow(cleaner, group, beginning, end),
                                 beginning, end)
       IN /\ affiliation' = o.aff
          /\ cleaningWeek' = o.cw
    /\ instance' = NoInstance
    /\ UNCHANGED <<diary, date, call, now, schedule, taskTemplate, dutySwitch, switchSeq>>

\* the Affiliation pk is loaded, its beginning and end are set, and it is saved
AffiliationUpdate(pk, beginning, end) ==
    /\ pk \in DOMAIN affiliation
    /\ LET o == Affiliation_save(affiliation, cleaningWeek, pk,
                                 AffiliationRow(affiliation[pk].cleaner, affiliation[pk].group,
                                                beginning, end),
                                 affiliation[pk].beginning, affiliation[pk].end)
       IN /\ affiliation' = o.aff
          /\ cleaningWeek' = o.cw
    /\ instance' = NoInstance
    /\ UNCHANGED <<diary, date, call, now, schedule, taskTemplate, dutySwitch, switchSeq>>

\* the Affiliation pk is loaded, its group is set, and it is saved:
\* previous_beginning and previous_end are the loaded beginning and end
AffiliationSetGroup(pk, group) ==
    /\ pk \in DOMAIN affiliation
    /\ LET o == Affiliation_save(affiliation, cleaningWeek, pk,
                                 AffiliationRow(affiliation[pk].cleaner, group,
                                                affiliation[pk].beginning, affiliation[pk].end),
                                 affiliation[pk].beginning, affiliation[pk].end)
       IN /\ affiliation' = o.aff
          /\ cleaningWeek' = o.cw
    /\ instance' = NoInstance
    /\ UNCHANGED <<diary, date, call, now, schedule, taskTemplate, dutySwitch, switchSeq>>

\* the TaskTemplate t is loaded, its task_disabled is set, and it is saved:
\* previous_disabled is the value it was loaded with
TaskTemplateSave(t, task_disabled) ==
    /\ t \in DOMAIN taskTemplate
    /\ taskTemplate' = Put(taskTemplate, t, [schedule |-> taskTemplate[t].schedule,
                                             task_disabled |-> task_disabled])
    /\ cleaningWeek' = IF taskTemplate[t].task_disabled # task_disabled
                       THEN InvalidateTasks(cleaningWeek,
                                            WeeksAfterNow(cleaningWeek, taskTemplate[t].schedule))
                       ELSE cleaningWeek
    /\ instance' = NoInstance
    /\ UNCHANGED <<diary, date, call, now, schedule, affiliation, dutySwitch, switchSeq>>

\* DutySwitch.objects.create(requester_assignment=a)
DutySwitchCreate(a) ==
    /\ switchSeq < MaxSwitches
    /\ a \in AssignmentIds(cleaningWeek)
    /\ switchSeq' = switchSeq + 1
    /\ dutySwitch' = Put(dutySwitch, switchSeq + 1, DutySwitchRow(a, None))
    /\ instance' = NoInstance
    /\ UNCHANGED <<diary, date, call, now, schedule, affiliation, taskTemplate, cleaningWeek>>

\* the DutySwitch pk is loaded, its acceptor_assignment is set to a, and it is saved
DutySwitchAccept(pk, a) ==
    /\ pk \in DOMAIN dutySwitch
    /\ a \in AssignmentIds(cleaningWeek)
    /\ LET o == DutySwitch_save(cleaningWeek, dutySwitch,
                                Accepting(cleaningWeek, dutySwitch, pk, a))
       IN /\ cleaningWeek' = o.cw
          /\ dutySwitch' = o.ds
          /\ instance' = o.obj
    /\ UNCHANGED <<diary, date, call, now, schedule, affiliation, taskTemplate, switchSeq>>

\* save() once more on the DutySwitch object the last call saved
DutySwitchResave ==
    /\ instance # NoInstance
    /\ LET o == DutySwitch_save(cleaningWeek, dutySwitch, instance)
       IN /\ cleaningWeek' = o.cw
          /\ dutySwitch' = o.ds
          /\ instance' = o.obj
    /\ UNCHANGED <<diary, date, call, now, schedule, affiliation, taskTemplate, switchSeq>>

\* ------------------------------------------- the handlers, statement by statement
\* The source opens no transaction and takes no lock: between two statements
\* of a handler the store is visible to, and writable by, every other caller.

\* a caller enters create_assignment(week) and runs it up to the test of line 171
FillEnter(c, s, week) ==
    /\ call[c].pc = "idle"
    /\ LET o == open_position(cleaningWeek, dutySwitch, s, week)
       IN /\ cleaningWeek' = o.cw
          /\ dutySwitch' = o.ds
          /\ call' = Put(call, c, IF o.result = "open"
                                  THEN Frame("select", s, week, NoInstance, 0)
                                  ELSE Idle)
    /\ UNCHANGED <<diary, date, now, schedule, affiliation, taskTemplate, switchSeq, instance>>

\* the caller goes on from line 177: the ratios, the choice and the create
FillSelect(c) ==
    /\ call[c].pc = "select"
    /\ \E o \in select_and_create(cleaningWeek, dutySwitch, call[c].schedule, call[c].week) :
          /\ cleaningWeek' = o.cw
          /\ dutySwitch' = o.ds
    /\ call' = Put(call, c, Idle)
    /\ UNCHANGED <<diary, date, now, schedule, affiliation, taskTemplate, switchSeq, instance>>

\* a caller loads the DutySwitch pk, sets its acceptor_assignment to a and
\* enters save(): the test of line 735
SaveEnter(c, pk, a) ==
    /\ call[c].pc = "idle"
    /\ pk \in DOMAIN dutySwitch
    /\ a \in AssignmentIds(cleaningWeek)
    /\ LET obj == Accepting(cleaningWeek, dutySwitch, pk, a)
       IN call' = Put(call, c, Frame(IF SwapDue(obj) THEN "excluded" ELSE "store",
                                     0, 0, obj, 0))
    /\ UNCHANGED <<diary, date, now, schedule, affiliation, taskTemplate, cleaningWeek, dutySwitch,
                   switchSeq, instance>>

\* line 736
SaveExcluded(c) ==
    /\ call[c].pc = "excluded"
    /\ cleaningWeek' = AddExcluded(cleaningWeek, call[c].obj)
    /\ call' = Put(call, c, Frame("requester", 0, 0, call[c].obj, 0))
    /\ UNCHANGED <<diary, date, now, schedule, affiliation, taskTemplate, dutySwitch, switchSeq, instance>>

\* lines 738-741
SaveRequester(c) ==
    /\ call[c].pc = "requester"
    /\ LET obj == call[c].obj
           requester == RequesterSwapped(obj)
       IN /\ cleaningWeek' = SaveAssignment(cleaningWeek, requester)
          /\ call' = Put(call, c,
                Frame("acceptor", 0, 0,
                      DutySwitchObject(obj.pk, obj.previous_acceptor, requester,
                                       obj.acceptor_assignment),
                      obj.requester_assignment.cleaner))
    /\ UNCHANGED <<diary, date, now, schedule, affiliation, taskTemplate, dutySwitch, switchSeq, instance>>

\* lines 743-744
SaveAcceptor(c) ==
    /\ call[c].pc = "acceptor"
    /\ LET obj == call[c].obj
           acceptor == AcceptorSwapped(obj, call[c].source_cleaner)
       IN /\ cleaningWeek' = SaveAssignment(cleaningWeek, acceptor)
          /\ call' = Put(call, c,
                Frame("store", 0, 0,
                      DutySwitchObject(obj.pk, obj.previous_acceptor,
                                       obj.requester_assignment, acceptor),
                      call[c].source_cleaner))
    /\ UNCHANGED <<diary, date, now, schedule, affiliation, taskTemplate, dutySwitch, switchSeq, instance>>

\* line 746
SaveStore(c) ==
    /\ call[c].pc = "store"
    /\ dutySwitch' = StoreSwitch(dutySwitch, call[c].obj)
    /\ call' = Put(call, c, Idle)
    /\ UNCHANGED <<diary, date, now, schedule, affiliation, taskTemplate, cleaningWeek, switchSeq, instance>>

\* The sequential system: the clock, the engine, the edits of a Schedule, the
\* interval edit of an Affiliation and the duty swap, one call at a time.  The acceptor
\* of a swap is one of the possible_acceptors the requester is offered.
Next ==
    \/ \E s \in Schedules, week \in Weeks : FillOccurrence(s, week)
    \/ \E s \in Schedules, b, e \in Weeks : FillRange(s, b, e)
    \/ \E s \in Schedules, f \in FREQUENCY_CHOICES, c \in CLEANERS_PER_DATE_CHOICES :
          ScheduleSave(s, f, c)
    \/ \E pk \in DOMAIN affiliation, b, e \in Weeks : AffiliationUpdate(pk, b, e)
    \/ \E a \in AssignmentIds(cleaningWeek) : DutySwitchCreate(a)
    \/ \E pk \in DOMAIN dutySwitch :
          \E a \in possible_acceptors(cleaningWeek, dutySwitch[pk].requester_assignment) :
              DutySwitchAccept(pk, a)
    \/ DutySwitchResave
    \/ Tick

Spec == Init /\ [][Next]_vars

\* The Affiliation timeline: Affiliations are created and edited over the
\* weeks AffWeeks while the engine fills the weeks.
InitAff ==
    /\ now = 0
    /\ schedule = [s \in Schedules |->
                      [cleaners_per_date |-> 1, frequency |-> 1, disabled |-> FALSE]]
    /\ affiliation = <<>>
    /\ taskTemplate = [t \in {1, 2} |-> [schedule |-> 1, task_disabled |-> (t = 2)]]
    /\ cleaningWeek = <<>>
    /\ dutySwitch = <<>>
    /\ switchSeq = 0
    /\ instance = NoInstance
    /\ call = [c \in Callers |-> Idle]
    /\ date = NoDate
    /\ diary = NoDiary

NextAff ==
    \/ \E c \in Cleaners, g \in Groups, b, e \in AffWeeks : AffiliationCreate(c, g, b, e)
    \/ \E pk \in DOMAIN affiliation, b, e \in AffWeeks : AffiliationUpdate(pk, b, e)
    \/ \E s \in Schedules, week \in AffWeeks : FillOccurrence(s, week)

SpecAff == InitAff /\ [][NextAff]_vars

\* The concurrent system: every caller runs create_assignment or
\* DutySwitch.save statement by statement, interleaved with the others.
NextConc ==
    \/ \E c \in Callers, s \in Schedules, week \in Weeks : FillEnter(c, s, week)
    \/ \E c \in Callers : FillSelect(c)
    \/ \E a \in AssignmentIds(cleaningWeek) : DutySwitchCreate(a)
    \/ \E c \in Callers, pk \in DOMAIN dutySwitch :
          \E a \in possible_acceptors(cleaningWeek, dutySwitch[pk].requester_assignment) :
              SaveEnter(c, pk, a)
    \/ \E c \in Callers : SaveExcluded(c)
    \/ \E c \in Callers : SaveRequester(c)
    \/ \E c \in Callers : SaveAcceptor(c)
    \/ \E c \in Callers : SaveStore(c)

SpecConc == Init /\ [][NextConc]_vars

\* The invalidation triggers: the clock runs while a Schedule, the Affiliation
\* of its one Cleaner and its TaskTemplates are edited and the engine fills
\* the weeks.
InitEdit ==
    /\ now = 0
    /\ schedule = [s \in Schedules |->
                      [cleaners_per_date |-> 1, frequency |-> 1, disabled |-> FALSE]]
    /\ affiliation = <<AffiliationRow(1, 1, 0, MaxWeek)>>
    /\ taskTemplate = [t \in {1, 2} |-> [schedule |-> 1, task_disabled |-> (t = 2)]]
    /\ cleaningWeek = <<>>
    /\ dutySwitch = <<>>
    /\ switchSeq = 0
    /\ instance = NoInstance
    /\ call = [c \in Callers |-> Idle]
    /\ date = NoDate
    /\ diary = NoDiary

NextEdit ==
    \/ Tick
    \/ \E s \in Schedules, week \in Weeks : FillOccurrence(s, week)
    \/ \E s \in Schedules, b, e \in Weeks : FillRange(s, b, e)
    \/ \E s \in Schedules, f \in FREQUENCY_CHOICES, c \in CLEANERS_PER_DATE_CHOICES :
          ScheduleSave(s, f, c)
    \/ \E pk \in DOMAIN affiliation, b, e \in Weeks : AffiliationUpdate(pk, b, e)
    \/ \E t \in DOMAIN taskTemplate, d \in BOOLEAN : TaskTemplateSave(t, d)

SpecEdit == InitEdit /\ [][NextEdit]_vars

\* The date helpers: a caller is given a date, converts it to its epoch week
\* and the week back to its Monday or its Sunday.
DateGiven(day) ==
    /\ date' = [day |-> day, week |-> date.week]
    /\ UNCHANGED <<now, schedule, affiliation, taskTemplate, cleaningWeek, dutySwitch,
                   switchSeq, instance, call, diary>>

ToEpochWeek ==
    /\ date' = [day |-> date.day, week |-> date_to_epoch_week(date.day)]
    /\ UNCHANGED <<now, schedule, affiliation, taskTemplate, cleaningWeek, dutySwitch,
                   switchSeq, instance, call, diary>>

ToMonday(utcoffset, dst) ==
    /\ date' = [day |-> epoch_week_to_monday(date.week, utcoffset, dst), week |-> date.week]
    /\ UNCHANGED <<now, schedule, affiliation, taskTemplate, cleaningWeek, dutySwitch,
                   switchSeq, instance, call, diary>>

ToSunday(utcoffset, dst) ==
    /\ date' = [day |-> epoch_week_to_sunday(date.week, utcoffset, dst), week |-> date.week]
    /\ UNCHANGED <<now, schedule, affiliation, taskTemplate, cleaningWeek, dutySwitch,
                   switchSeq, instance, call, diary>>

NextDates ==
    \/ \E day \in Days : DateGiven(day)
    \/ ToEpochWeek
    \/ \E utcoffset \in UtcOffsets, dst \in DaylightSavings : ToMonday(utcoffset, dst)
    \/ \E utcoffset \in UtcOffsets, dst \in DaylightSavings : ToSunday(utcoffset, dst)

SpecDates == Init /\ [][NextDates]_vars

\* The rotation alone: a Schedule of any frequency and cleaners_per_date, two
\* or more Cleaners affiliated over all of FairWeeks, nothing assigned yet,
\* and only the engine runs.
InitFair ==
    /\ now = 0
    /\ \E f \in FREQUENCY_CHOICES, c \in CLEANERS_PER_DATE_CHOICES :
          schedule = [s \in Schedules |->
                         [cleaners_per_date |-> c, frequency |-> f, disabled |-> FALSE]]
    /\ \E n \in 2..NumFairCleaners :
          affiliation = [c \in 1..n |-> AffiliationRow(c, 1, 0, MaxFairWeek)]
    /\ taskTemplate = [t \in {1, 2} |-> [schedule |-> 1, task_disabled |-> (t = 2)]]
    /\ cleaningWeek = <<>>
    /\ dutySwitch = <<>>
    /\ switchSeq = 0
    /\ instance = NoInstance
    /\ call = [c \in Callers |-> Idle]
    /\ date = NoDate
    /\ diary = NoDiary

NextFair ==
    \/ \E s \in Schedules, week \in FairWeeks : FillOccurrence(s, week)
    \/ \E s \in Schedules, b, e \in FairWeeks : FillRange(s, b, e)

SpecFair == InitFair /\ [][NextFair]_vars

\* A Schedule that is disabled and enabled: its frequency, its
\* cleaners_per_date and its disabled flag are edited while the engine fills
\* the weeks and swaps are requested and accepted.
NextDisabled ==
    \/ \E s \in Schedules, week \in Weeks : FillOccurrence(s, week)
    \/ \E s \in Schedules, f \in FREQUENCY_CHOICES, c \in CLEANERS_PER_DATE_CHOICES :
          ScheduleSave(s, f, c)
    \/ \E s \in Schedules, d \in BOOLEAN : ScheduleSaveDisabled(s, d)
    \/ \E a \in AssignmentIds(cleaningWeek) : DutySwitchCreate(a)
    \/ \E pk \in DOMAIN dutySwitch :
          \E a \in possible_acceptors(cleaningWeek, dutySwitch[pk].requester_assignment) :
              DutySwitchAccept(pk, a)

SpecDisabled == Init /\ [][NextDisabled]_vars

\* The swap over three weeks: the engine fills the weeks of InitFair, a
\* DutySwitch is created on any Assignment and saved with any Assignment as
\* its acceptor_assignment.
NextSwap ==
    \/ \E s \in Schedules, week \in FairWeeks : FillOccurrence(s, week)
    \/ \E a \in AssignmentIds(cleaningWeek) : DutySwitchCreate(a)
    \/ \E pk \in DOMAIN dutySwitch, a \in AssignmentIds(cleaningWeek) : DutySwitchAccept(pk, a)

SpecSwap == InitFair /\ [][NextSwap]_vars

\* The cascade next to the swap: the three kinds of save that invalidate
\* (cleaners_per_date of the Schedule, the interval of the first Affiliation,
\* task_disabled of the first TaskTemplate), the engine's fills, and
\* DutySwitches created and accepted in between.
NextLazy ==
    \/ \E s \in Schedules, week \in Weeks : FillOccurrence(s, week)
    \/ \E s \in Schedules, c \in CLEANERS_PER_DATE_CHOICES :
          ScheduleSave(s, schedule[s].frequency, c)
    \/ \E b, e \in Weeks : AffiliationUpdate(1, b, e)
    \/ \E d \in BOOLEAN : TaskTemplateSave(1, d)
    \/ \E a \in AssignmentIds(cleaningWeek) : DutySwitchCreate(a)
    \/ \E pk \in DOMAIN dutySwitch :
          \E a \in possible_acceptors(cleaningWeek, dutySwitch[pk].requester_assignment) :
              DutySwitchAccept(pk, a)

SpecLazy == Init /\ [][NextLazy]_vars

\* The membership: Affiliations are created, moved to another ScheduleGroup
\* and edited in their interval while the engine fills the weeks.
NextMember ==
    \/ \E c \in Cleaners, g \in Groups, b, e \in AffWeeks : AffiliationCreate(c, g, b, e)
    \/ \E pk \in DOMAIN affiliation, g \in Groups : AffiliationSetGroup(pk, g)
    \/ \E pk \in DOMAIN affiliation, b, e \in AffWeeks : AffiliationUpdate(pk, b, e)
    \/ \E s \in Schedules, week \in AffWeeks : FillOccurrence(s, week)

SpecMember == InitAff /\ [][NextMember]_vars

\* ------------------------------------------------------------ the passing
\* Schedule.weekday and the two window fields of a TaskTemplate are days 0..6;
\* the runs below draw them from these
WeekdayChoices == {0, 6}
WindowChoices == {<<0, 0>>, <<2, 3>>}

\* the Mondays and Sundays between which timezone.now().date() moves
FirstDay == epoch_week_to_monday(0, 0, 0)
LastDay == epoch_week_to_sunday(MaxWeek, 0, 0)

\* Cleaner.switchable_assignments_for_request: look_weeks_into_future
look_weeks_into_future == 12

\* the Task rows of the CleaningWeek k: <<schedule, week, template>>
TaskIds(cw, k) == {<<k[1], k[2], cw[k].task_set[i]>> : i \in DOMAIN cw[k].task_set}

\* CleaningWeek.week_start in a process of the zone (utcoffset, dst)
week_start(k, utcoffset, dst) == epoch_week_to_monday(k[2], utcoffset, dst)

\* CleaningWeek.assignment_date
assignment_date(k, utcoffset, dst) ==
    epoch_week_to_monday(k[2], utcoffset, dst) + diary.weekday

\* Task.start_date
start_date(task, utcoffset, dst) ==
    week_start(<<task[1], task[2]>>, utcoffset, dst) + diary.weekday
        - diary.start_days_before[task[3]]

\* Task.end_date
end_date(task, utcoffset, dst) ==
    week_start(<<task[1], task[2]>>, utcoffset, dst) + diary.weekday
        + diary.end_days_after[task[3]]

\* Task.my_time_has_come
my_time_has_come(task, utcoffset, dst) ==
    /\ start_date(task, utcoffset, dst) <= diary.today
    /\ diary.today <= end_date(task, utcoffset, dst)

\* Task.has_passed
Task_has_passed(task, utcoffset, dst) == end_date(task, utcoffset, dst) < diary.today

\* Task.cleaned_by is None
NotCleaned(task) == task \notin DOMAIN diary.cleaned_by

\* CleaningWeek.tasks_are_ready_to_be_done
tasks_are_ready_to_be_done(cw, k, utcoffset, dst) ==
    \E task \in TaskIds(cw, k) : my_time_has_come(task, utcoffset, dst) /\ NotCleaned(task)

\* an Assignment.has_passed that looks at the assignment_date only
has_passed_DateOnly(cw, a, utcoffset, dst) ==
    assignment_date(AssignmentWeek(a), utcoffset, dst) < diary.today

\* Assignment.has_passed
has_passed(cw, a, utcoffset, dst) ==
    /\ assignment_date(AssignmentWeek(a), utcoffset, dst) < diary.today
    /\ ~tasks_are_ready_to_be_done(cw, AssignmentWeek(a), utcoffset, dst)

\* Cleaner.affiliation_in_week: the Affiliations of the filter .get() reads.
\* With none .get() raises DoesNotExist and None is returned, with more than
\* one it raises MultipleObjectsReturned.
affiliation_in_week(aff, cleaner, week) ==
    {pk \in DOMAIN aff : /\ aff[pk].cleaner = cleaner
                         /\ aff[pk].beginning <= week
                         /\ aff[pk].end >= week}

\* Cleaner.switchable_assignments_for_request for the DutySwitch whose
\* requester_assignment is r
switchable_assignments_for_request(aff, cw, cleaner, r, utcoffset, dst) ==
    LET from_week == now
        own == affiliation_in_week(aff, cleaner, r[2])
        switchable_assignments ==
            {a \in AssignmentIds(cw) : /\ AssignmentCleaner(cw, a) = cleaner
                                       /\ a[2] >= from_week
                                       /\ a[2] <= from_week + look_weeks_into_future}
    IN IF has_passed(cw, r, utcoffset, dst)
       THEN [result |-> "returned", assignments |-> {}]
       ELSE IF Cardinality(own) > 1
       THEN [result |-> "MultipleObjectsReturned", assignments |-> {}]
       ELSE IF own = {} \/ \A pk \in own : r[1] \notin GroupSchedules(aff[pk].group)
       THEN [result |-> "returned", assignments |-> {}]
       ELSE [result |-> "returned",
             assignments |-> possible_acceptors(cw, r) \cap switchable_assignments]

\* Two Cleaners are affiliated over all weeks, both TaskTemplates are enabled;
\* the weekday of the Schedule and the windows of the TaskTemplates are drawn.
InitPassed ==
    /\ now = 0
    /\ schedule = [s \in Schedules |->
                      [cleaners_per_date |-> 1, frequency |-> 1, disabled |-> FALSE]]
    /\ affiliation = [c \in Cleaners |-> AffiliationRow(c, 1, 0, MaxWeek)]
    /\ taskTemplate = [t \in {1, 2} |-> [schedule |-> 1, task_disabled |-> FALSE]]
    /\ cleaningWeek = <<>>
    /\ dutySwitch = <<>>
    /\ switchSeq = 0
    /\ instance = NoInstance
    /\ call = [c \in Callers |-> Idle]
    /\ date = NoDate
    /\ \E weekday \in WeekdayChoices, w1, w2 \in WindowChoices :
          diary = [today |-> FirstDay, weekday |-> weekday,
                   start_days_before |-> <<w1[1], w2[1]>>,
                   end_days_after |-> <<w1[2], w2[2]>>,
                   cleaned_by |-> <<>>]

\* a day passes: timezone.now().date() and current_epoch_week() move on
TodayNext ==
    /\ diary.today < LastDay
    /\ diary' = [today |-> diary.today + 1, weekday |-> diary.weekday,
                 start_days_before |-> diary.start_days_before,
                 end_days_after |-> diary.end_days_after,
                 cleaned_by |-> diary.cleaned_by]
    /\ now' = date_to_epoch_week(diary.today + 1)
    /\ instance' = NoInstance
    /\ UNCHANGED <<date, call, schedule, affiliation, taskTemplate, cleaningWeek, dutySwitch,
                   switchSeq>>

\* Task.set_cleaned_by
set_cleaned_by(task, cleaner) ==
    /\ task \in UNION {TaskIds(cleaningWeek, k) : k \in DOMAIN cleaningWeek}
    /\ diary' = [today |-> diary.today, weekday |-> diary.weekday,
                 start_days_before |-> diary.start_days_before,
                 end_days_after |-> diary.end_days_after,
                 cleaned_by |-> Put(diary.cleaned_by, task, cleaner)]
    /\ instance' = NoInstance
    /\ UNCHANGED <<date, call, now, schedule, affiliation, taskTemplate, cleaningWeek,
                   dutySwitch, switchSeq>>

\* The passing: days pass while the engine fills the weeks, Tasks are marked
\* as cleaned by a Cleaner of their Occurrence, and a DutySwitch is opened.
NextPassed ==
    \/ TodayNext
    \/ \E s \in Schedules, week \in Weeks : FillOccurrence(s, week)
    \/ \E k \in DOMAIN cleaningWeek :
          \E task \in TaskIds(cleaningWeek, k), i \in DOMAIN cleaningWeek[k].assignment_set :
              /\ NotCleaned(task)
              /\ set_cleaned_by(task, cleaningWeek[k].assignment_set[i])
    \/ \E a \in AssignmentIds(cleaningWeek) : DutySwitchCreate(a)

SpecPassed == InitPassed /\ [][NextPassed]_vars

\* ------------------------------------------------------------------ claims
\* number of Assignment rows of the CleaningWeek k
NrAssignments(cw, k) == Len(cw[k].assignment_set)

\* C1 as stated: in every reachable state every Occurrence owns at most
\* slotsPerOccurrence Assignments, counted against the Definition's current
\* slot count.
C1_SlotCapEverywhere ==
    \A k \in DOMAIN cleaningWeek :
        NrAssignments(cleaningWeek, k) <= schedule[k[1]].cleaners_per_date

\* C1 amended: no operation adds an Assignment beyond the current slot count:
\* whenever a step creates an Occurrence or raises its number of Assignments,
\* the Occurrence then owns at most slotsPerOccurrence Assignments.
C1_NoAssignmentBeyondSlots ==
    [][\A k \in DOMAIN cleaningWeek' :
          (\/ k \notin DOMAIN cleaningWeek
           \/ NrAssignments(cleaningWeek', k) > NrAssignments(cleaningWeek, k))
          => NrAssignments(cleaningWeek', k) <= schedule'[k[1]].cleaners_per_date]_vars

\* C1 witness: an Occurrence filled up to a slot count of two
C1_Witness ==
    \E k \in DOMAIN cleaningWeek :
        /\ schedule[k[1]].cleaners_per_date = 2
        /\ cleaningWeek[k].assignments_valid
        /\ NrAssignments(cleaningWeek, k) = 2

\* C2 as stated: no two Affiliations of one Person have intersecting
\* [beginning, end] intervals, whatever creates and updates were accepted.
C2_NoOverlap ==
    \A i, j \in DOMAIN affiliation :
        (i # j /\ affiliation[i].cleaner = affiliation[j].cleaner)
        => \/ affiliation[i].end < affiliation[j].beginning
           \/ affiliation[j].end < affiliation[i].beginning

\* the DutySwitch pk is Open / Closed
IsOpen(ds, pk) == ds[pk].acceptor_assignment = None
IsClosed(ds, pk) == ds[pk].acceptor_assignment # None

\* C3: when an Open DutySwitch gets its acceptor_assignment set and is saved,
\* the requester's Assignment then holds the acceptor's original Person, the
\* acceptor's Assignment holds the requester's original Person, and the
\* requester's original Person is in the excluded of the requester's
\* Occurrence: in every reachable state, for every Open DutySwitch and every
\* Assignment a as its acceptor, the save leaves the store so.
C3_SwapRebinds ==
    \A pk \in DOMAIN dutySwitch, a \in AssignmentIds(cleaningWeek) :
        IsOpen(dutySwitch, pk)
        => LET r == dutySwitch[pk].requester_assignment
               source == AssignmentCleaner(cleaningWeek, r)
               target == AssignmentCleaner(cleaningWeek, a)
               o == DutySwitch_save(cleaningWeek, dutySwitch,
                                    Accepting(cleaningWeek, dutySwitch, pk, a))
           IN /\ AssignmentCleaner(o.cw, r) = target
              /\ AssignmentCleaner(o.cw, a) = source
              /\ source \in o.cw[AssignmentWeek(r)].excluded

\* C3 witness: a save has just closed a DutySwitch between two different
\* Persons on two different Occurrences
C3_Witness ==
    /\ instance.pk \in DOMAIN dutySwitch
    /\ instance.previous_acceptor = None
    /\ IsClosed(dutySwitch, instance.pk)
    /\ instance.requester_assignment.cleaner # instance.acceptor_assignment.cleaner
    /\ AssignmentWeek(instance.requester_assignment.id)
          # AssignmentWeek(instance.acceptor_assignment.id)

\* the Persons of the Assignments and the excluded sets of the store cw
Bindings(cw) == [k \in DOMAIN cw |-> <<cw[k].assignment_set, cw[k].excluded>>]

\* C4 as stated: saving a Closed DutySwitch again, be it loaded afresh or the
\* object whose save closed it, changes no Assignment's Person and no
\* Occurrence's excluded set.
C4_ResaveChangesNothing ==
    [][(\/ DutySwitchResave
        \/ \E pk \in DOMAIN dutySwitch, a \in AssignmentIds(cleaningWeek) :
              IsClosed(dutySwitch, pk) /\ DutySwitchAccept(pk, a))
       => Bindings(cleaningWeek') = Bindings(cleaningWeek)]_vars

\* C5 as stated: Closed is terminal: no step makes a Closed DutySwitch Open.
C5_ClosedIsTerminal ==
    [][\A pk \in DOMAIN dutySwitch :
          (IsClosed(dutySwitch, pk) /\ pk \in DOMAIN dutySwitch')
          => IsClosed(dutySwitch', pk)]_vars

\* C6 as stated: while a caller is inside the closing save of a DutySwitch
\* between two different Persons, the store never shows the requester's
\* Assignment with the acceptor's Person while the acceptor's Assignment
\* still has it too, nor the exclusion written while both Assignments still
\* have their original Persons.
C6_SwapAtomic ==
    \A c \in Callers :
        LET obj == call[c].obj
            r == obj.requester_assignment.id
            a == obj.acceptor_assignment.id
        IN /\ (call[c].pc = "acceptor"
                  /\ call[c].source_cleaner # obj.acceptor_assignment.cleaner)
              => ~(/\ AssignmentCleaner(cleaningWeek, r) = obj.acceptor_assignment.cleaner
                   /\ AssignmentCleaner(cleaningWeek, a) = obj.acceptor_assignment.cleaner)
           /\ (call[c].pc = "requester"
                  /\ obj.requester_assignment.cleaner # obj.acceptor_assignment.cleaner)
              => ~(/\ obj.requester_assignment.cleaner
                         \in cleaningWeek[AssignmentWeek(r)].excluded
                   /\ AssignmentCleaner(cleaningWeek, r) = obj.requester_assignment.cleaner
                   /\ AssignmentCleaner(cleaningWeek, a) = obj.acceptor_assignment.cleaner)

\* C7 as stated: interleaved create_assignment calls on one week never leave
\* its Occurrence with more than cleaners_per_date Assignments.
C7_SlotCapUnderInterleaving ==
    \A s \in Schedules, week \in Weeks :
        <<s, week>> \in DOMAIN cleaningWeek
        => Len(cleaningWeek[<<s, week>>].assignment_set) <= schedule[s].cleaners_per_date

\* the weeks of the range
RangeWeeks(start_week, end_week) ==
    Min({start_week, end_week})..Max({start_week, end_week})

\* C8: after a completed create_assignments_over_timespan(s, b, e), a second
\* one leaves the store as the first left it, and each of its calls of
\* create_assignment creates nothing, deletes nothing and changes no flag.
C8_FillRangeIdempotent ==
    \A s \in Schedules, b, e \in Weeks :
        \A o \in create_assignments_over_timespan(cleaningWeek, dutySwitch, s, b, e) :
            o.result # "IndexError"
            => /\ \A o2 \in create_assignments_over_timespan(o.cw, o.ds, s, b, e) :
                     o2.cw = o.cw /\ o2.ds = o.ds /\ o2.result # "IndexError"
               /\ \A week \in RangeWeeks(b, e) :
                     \A o1 \in create_assignment(o.cw, o.ds, s, week) :
                         /\ o1.result \notin {"created", "IndexError"}
                         /\ o1.cw = o.cw
                         /\ o1.ds = o.ds

\* C8 witness: both weeks hold two Assignments each, as a completed run over
\* the two weeks leaves them, and a further run finds them full
C8_Witness ==
    /\ \A week \in Weeks :
          /\ <<1, week>> \in DOMAIN cleaningWeek
          /\ cleaningWeek[<<1, week>>].assignments_valid
          /\ NrAssignments(cleaningWeek, <<1, week>>) = 2
    /\ schedule[1].cleaners_per_date = 2
    /\ \A o \in create_assignments_over_timespan(cleaningWeek, dutySwitch, 1, 0, MaxWeek) :
          o.result = "full" /\ o.cw = cleaningWeek

\* the positions of ratios whose Person is not in excluded
NonExcluded(ratios, excluded) == {i \in DOMAIN ratios : ratios[i][1] \notin excluded}

\* C9 as stated: whenever create_assignment reaches the selection and some
\* eligible Person is not excluded, it creates an Assignment for a Person who
\* is not excluded and whose ratio is the lowest among the non-excluded ones.
C9_LowestNonExcludedChosen ==
    \A s \in Schedules, week \in Weeks :
        LET p == open_position(cleaningWeek, dutySwitch, s, week)
            ratios == deployment_ratios(p.cw, week, s)
            free == NonExcluded(ratios, p.cw[<<s, week>>].excluded)
        IN (p.result = "open" /\ free # {})
           => \A o \in select_and_create(p.cw, p.ds, s, week) :
                 /\ o.result = "created"
                 /\ \E i \in free :
                       /\ ratios[i][1] = o.cleaner
                       /\ \A j \in free : ~RatioLess(ratios[j][2], ratios[i][2])

\* C10 as stated: when a position is open and every eligible Person is
\* excluded, create_assignment creates an Assignment for the Person with the
\* lowest ratio of all.
C10_FallbackWhenAllExcluded ==
    \A s \in Schedules, week \in Weeks :
        LET p == open_position(cleaningWeek, dutySwitch, s, week)
            ratios == deployment_ratios(p.cw, week, s)
        IN (/\ p.result = "open"
            /\ ratios # <<>>
            /\ NonExcluded(ratios, p.cw[<<s, week>>].excluded) = {})
           => \A o \in select_and_create(p.cw, p.ds, s, week) :
                 o.result = "created" /\ o.cleaner = ratios[1][1]


\* the Assignments of schedule s a cleaner holds
AssignmentCount(cw, s, cleaner) ==
    Cardinality({a \in AssignmentIds(cw) : a[1] = s /\ AssignmentCleaner(cw, a) = cleaner})

AssignmentsDeleted(cw, ds, k) ==
    [cw |-> Put(cw, k, WithAssignmentSet(cw[k], <<>>)), ds |-> OnDeleteAssignments(ds, k)]

\* C12: for a CleaningWeek an Affiliation edit left invalid, of an enabled
\* Schedule in a week it occurs in, the next create_assignment does what it
\* does on the store without the week's Assignments: every outcome has
\* assignments_valid = TRUE and holds at most the one Assignment the call
\* created, so no Assignment the week had before the call is left.
C12_InvalidWeekRefilled ==
    \A k \in DOMAIN cleaningWeek :
        (/\ ~cleaningWeek[k].assignments_valid
         /\ ~schedule[k[1]].disabled
         /\ occurs_in_week(k[1], k[2]))
        => LET before == AssignmentsDeleted(cleaningWeek, dutySwitch, k)
               outcomes == create_assignment(cleaningWeek, dutySwitch, k[1], k[2])
           IN /\ outcomes = create_assignment(before.cw, before.ds, k[1], k[2])
              /\ \A o \in outcomes :
                    /\ o.cw[k].assignments_valid
                    /\ o.cw[k].assignment_set =
                          IF o.result = "created" THEN <<o.cleaner>> ELSE <<>>
                    /\ \A p \in DOMAIN o.ds :
                          /\ AssignmentWeek(o.ds[p].requester_assignment) # k
                          /\ o.ds[p].acceptor_assignment # None
                             => AssignmentWeek(o.ds[p].acceptor_assignment) # k

\* an Affiliation edit left a week with an Assignment invalid, and the cleaner
\* of that Assignment is no longer affiliated in the week
C12_Witness ==
    \E k \in DOMAIN cleaningWeek :
        /\ ~cleaningWeek[k].assignments_valid
        /\ NrAssignments(cleaningWeek, k) > 0
        /\ ~schedule[k[1]].disabled
        /\ occurs_in_week(k[1], k[2])
        /\ \A i \in active_in_week_for_schedule(k[2], k[1]) :
              affiliation[i].cleaner # cleaningWeek[k].assignment_set[1]


\* week lies in the interval [beginning, end]
InInterval(week, beginning, end) == beginning <= week /\ week <= end

\* C13: an accepted save of a stored Affiliation with its interval changed
\* from [b0, e0] to [b1, e1], b1 <= e1, sets assignments_valid = FALSE on the
\* CleaningWeeks whose week lies in exactly one of the two intervals and
\* leaves every other CleaningWeek as it is.
C13_InvalidatedIsSymmetricDifference ==
    \A pk \in DOMAIN affiliation : \A b1, e1 \in AffWeeks :
        LET b0 == affiliation[pk].beginning
            e0 == affiliation[pk].end
            o == Affiliation_save(affiliation, cleaningWeek, pk,
                                  AffiliationRow(affiliation[pk].cleaner,
                                                 affiliation[pk].group, b1, e1),
                                  b0, e0)
        IN (b0 <= e0 /\ b1 <= e1 /\ o.result = "saved")
           => /\ DOMAIN o.cw = DOMAIN cleaningWeek
              /\ \A k \in DOMAIN cleaningWeek :
                    IF InInterval(k[2], b0, e0) # InInterval(k[2], b1, e1)
                    THEN o.cw[k] = WithAssignmentsValid(cleaningWeek[k], FALSE)
                    ELSE o.cw[k] = cleaningWeek[k]

\* an Affiliation over week 0 alone can be moved to week 2 alone while valid
\* CleaningWeeks exist for the weeks 0, 1 and 2: week 1 is the gap
C13_Witness ==
    \E pk \in DOMAIN affiliation :
        /\ affiliation[pk].beginning = 0
        /\ affiliation[pk].end = 0
        /\ ~date_validator(pk, affiliation[pk].cleaner, 2, 2)
        /\ \A week \in 0..2 :
              /\ <<1, week>> \in DOMAIN cleaningWeek
              /\ cleaningWeek[<<1, week>>].assignments_valid


\* C14: a save of a Schedule, a TaskTemplate or an Affiliation that changes
\* the row leaves tasks_valid and assignments_valid of every CleaningWeek of
\* a week before the current one as they are.
C14_PastWeeksUntouched ==
    [][(schedule' # schedule \/ taskTemplate' # taskTemplate \/ affiliation' # affiliation)
       => \A k \in DOMAIN cleaningWeek :
             k[2] < now
             => /\ k \in DOMAIN cleaningWeek'
                /\ cleaningWeek'[k].tasks_valid = cleaningWeek[k].tasks_valid
                /\ cleaningWeek'[k].assignments_valid = cleaningWeek[k].assignments_valid]_vars


\* C15: a save of a Schedule whose frequency or cleaners_per_date differs from
\* the loaded value sets assignments_valid = FALSE on every CleaningWeek of
\* that Schedule of the current week or a later one, and changes
\* assignments_valid of no CleaningWeek of another Schedule.
C15_CurrentAndLaterWeeksInvalidated ==
    [][\A s \in Schedules :
          ScheduleChanged(schedule[s], schedule'[s])
          => \A k \in DOMAIN cleaningWeek :
                /\ k \in DOMAIN cleaningWeek'
                /\ (k[1] = s /\ k[2] >= now) => ~cleaningWeek'[k].assignments_valid
                /\ k[1] # s => cleaningWeek'[k].assignments_valid
                                  = cleaningWeek[k].assignments_valid]_vars


C17_WeekRoundTrip ==
    date.week >= 0
    => \A utcoffset \in UtcOffsets, dst \in DaylightSavings :
          /\ date_to_epoch_week(epoch_week_to_monday(date.week, utcoffset, dst)) = date.week
          /\ date_to_epoch_week(epoch_week_to_sunday(date.week, utcoffset, dst)) = date.week

\* C18: for every date the Monday of its epoch week is the date itself or
\* one of the six days before it.
C18_DateRoundTrip ==
    \A utcoffset \in UtcOffsets, dst \in DaylightSavings :
        LET monday == epoch_week_to_monday(date_to_epoch_week(date.day), utcoffset, dst)
        IN monday <= date.day /\ date.day <= monday + 6


\* C19: an Affiliation.save that date_validator rejects, of a new instance or
\* of a stored one with a new interval, writes nothing: the Affiliation rows
\* and every CleaningWeek are as before the call.
C19_RejectedSaveWritesNothing ==
    /\ \A c \in Cleaners, g \in Groups, b, e \in AffWeeks :
          LET o == Affiliation_save(affiliation, cleaningWeek, 0,
                                    AffiliationRow(c, g, b, e), b, e)
          IN o.result = "ValidationError"
             => o.aff = affiliation /\ o.cw = cleaningWeek
    /\ \A pk \in DOMAIN affiliation : \A b, e \in AffWeeks :
          LET o == Affiliation_save(affiliation, cleaningWeek, pk,
                                    AffiliationRow(affiliation[pk].cleaner,
                                                   affiliation[pk].group, b, e),
                                    affiliation[pk].beginning, affiliation[pk].end)
          IN o.result = "ValidationError"
             => o.aff = affiliation /\ o.cw = cleaningWeek

\* a stored Affiliation has an edit that date_validator rejects, for an
\* overlap with another Affiliation of its Cleaner, and whose interval change
\* covers a valid CleaningWeek
C19_Witness ==
    \E pk \in DOMAIN affiliation : \E b, e \in AffWeeks :
        /\ b <= e
        /\ date_validator(pk, affiliation[pk].cleaner, b, e)
        /\ \E k \in cleaning_weeks_invalidated(cleaningWeek, affiliation[pk].beginning,
                                               affiliation[pk].end, b, e) :
              cleaningWeek[k].assignments_valid


\* C20: in every reachable state create_assignment returns for every Schedule
\* and week, with an Assignment or with one of its reasons for none; it never
\* ends in an exception.
C20_CreateAssignmentTotal ==
    \A s \in Schedules, week \in Weeks :
        \A o \in create_assignment(cleaningWeek, dutySwitch, s, week) :
            o.result \in {"created", "disabled", "off-cycle", "full", "no-ratios"}


C22_IneligibleAcceptorNoSwap ==
    \A pk \in DOMAIN dutySwitch :
        IsOpen(dutySwitch, pk)
        => \A a \in AssignmentIds(cleaningWeek)
                    \ possible_acceptors(cleaningWeek, dutySwitch[pk].requester_assignment) :
              Bindings(DutySwitch_save(cleaningWeek, dutySwitch,
                                       Accepting(cleaningWeek, dutySwitch, pk, a)).cw)
                  = Bindings(cleaningWeek)


C24_OffCycleLeavesNoWeek ==
    \A s \in Schedules, week \in Weeks :
        (~schedule[s].disabled /\ ~occurs_in_week(s, week))
        => \A o \in create_assignment(cleaningWeek, dutySwitch, s, week) :
              /\ o.result = "off-cycle"
              /\ DOMAIN o.cw = DOMAIN cleaningWeek \ {<<s, week>>}
              /\ \A k \in DOMAIN o.cw : o.cw[k] = cleaningWeek[k]
              /\ AssignmentIds(o.cw) = {a \in AssignmentIds(cleaningWeek) :
                                           AssignmentWeek(a) # <<s, week>>}

\* a frequency change has left a CleaningWeek with an Assignment and a Task in
\* a week the enabled Schedule no longer occurs in
C24_Witness ==
    \E k \in DOMAIN cleaningWeek :
        /\ ~schedule[k[1]].disabled
        /\ ~occurs_in_week(k[1], k[2])
        /\ NrAssignments(cleaningWeek, k) > 0
        /\ Len(cleaningWeek[k].task_set) > 0


\* C25: create_assignment of a disabled Schedule returns False for that
\* reason and writes nothing: every CleaningWeek, also one in a week the
\* Schedule does not occur in, and every DutySwitch row are as before.
C25_DisabledChangesNothing ==
    \A s \in Schedules, week \in Weeks :
        schedule[s].disabled
        => create_assignment(cleaningWeek, dutySwitch, s, week)
              = {[cw |-> cleaningWeek, ds |-> dutySwitch, result |-> "disabled", cleaner |-> 0]}

\* a disabled Schedule has a filled CleaningWeek in a week it does not occur in
C25_Witness ==
    \E s \in Schedules :
        /\ schedule[s].disabled
        /\ \E k \in DOMAIN cleaningWeek :
              k[1] = s /\ ~occurs_in_week(s, k[2]) /\ NrAssignments(cleaningWeek, k) > 0


\* C26: after create_assignment has run for an enabled Schedule and a week it
\* occurs in, the CleaningWeek has tasks_valid = TRUE and its Tasks are one
\* for each enabled TaskTemplate of the Schedule and no other: none is
\* missing, none is there twice, none is of a disabled TaskTemplate.
C26_TasksMatchEnabledTemplates ==
    \A s \in Schedules, week \in Weeks :
        (~schedule[s].disabled /\ occurs_in_week(s, week))
        => \A o \in create_assignment(cleaningWeek, dutySwitch, s, week) :
              LET row == o.cw[<<s, week>>]
              IN /\ row.tasks_valid
                 /\ \A t \in DOMAIN taskTemplate :
                       Cardinality({i \in DOMAIN row.task_set : row.task_set[i] = t})
                           = IF taskTemplate[t].schedule = s /\ ~taskTemplate[t].task_disabled
                             THEN 1 ELSE 0


\* C27: whenever create_assignment reaches the selection and the group of the
\* lowest ratio has members that are not excluded, it creates an Assignment
\* for one of them who has the fewest Assignments in that week among the
\* non-excluded members of the group, whatever the excluded members hold.
C27_ExclusionBeforeTieBreak ==
    \A s \in Schedules, week \in Weeks :
        LET p == open_position(cleaningWeek, dutySwitch, s, week)
            ratios == deployment_ratios(p.cw, week, s)
            groups == grouped_by_ratios(ratios)
            non_excluded == IF groups = <<>> THEN {}
                            ELSE groups[1] \ p.cw[<<s, week>>].excluded
        IN (p.result = "open" /\ non_excluded # {})
           => \A o \in select_and_create(p.cw, p.ds, s, week) :
                 /\ o.result = "created"
                 /\ o.cleaner \in non_excluded
                 /\ \A x \in non_excluded :
                       nr_assignments_in_week(p.cw, o.cleaner, week)
                           <= nr_assignments_in_week(p.cw, x, week)


\* C28: every Assignment create_assignment(s, week) creates is for a Cleaner
\* who, in the state it is created in, has an Affiliation with
\* beginning <= week <= end to a ScheduleGroup that has s among its schedules.
C28_CreatedForActiveAffiliate ==
    \A s \in Schedules, week \in AffWeeks :
        \A o \in create_assignment(cleaningWeek, dutySwitch, s, week) :
            o.result = "created"
            => \E i \in DOMAIN affiliation :
                  /\ affiliation[i].cleaner = o.cleaner
                  /\ InInterval(week, affiliation[i].beginning, affiliation[i].end)
                  /\ s \in GroupSchedules(affiliation[i].group)

\* an Assignment has been created for a week in which one Cleaner is
\* affiliated to a ScheduleGroup of the Schedule and another Cleaner only to a
\* ScheduleGroup without it
C28_Witness ==
    \E k \in DOMAIN cleaningWeek : \E i, j \in DOMAIN affiliation :
        /\ cleaningWeek[k].assignments_valid
        /\ cleaningWeek[k].assignment_set = <<affiliation[i].cleaner>>
        /\ InInterval(k[2], affiliation[i].beginning, affiliation[i].end)
        /\ k[1] \in GroupSchedules(affiliation[i].group)
        /\ affiliation[j].cleaner # affiliation[i].cleaner
        /\ InInterval(k[2], affiliation[j].beginning, affiliation[j].end)
        /\ k[1] \notin GroupSchedules(affiliation[j].group)


\* the orders in which a queryset with the rows S can be iterated
Orderings(S) ==
    {q \in [1..Cardinality(S) -> S] : \A i, j \in DOMAIN q : q[i] = q[j] => i = j}

\* C29: with A the Affiliations that are active in week for a ScheduleGroup of
\* the Schedule s: when A is not empty, constant_affiliation_timespan(week) is
\* [max of the beginnings of A, min of the ends of A], the loop gives the same
\* in whatever order it visits A, and beginning <= week <= end; when A is
\* empty the timespan is the empty dict and create_assignment creates no
\* Assignment (it ends at "Deployment ratios are not defined" when it gets
\* as far as the ratios).
C29_TimespanIsMaxMin ==
    \A s \in Schedules, week \in AffWeeks :
        LET A == {i \in DOMAIN affiliation :
                     /\ InInterval(week, affiliation[i].beginning, affiliation[i].end)
                     /\ s \in GroupSchedules(affiliation[i].group)}
            timespan == constant_affiliation_timespan(week, s)
        IN IF A # {}
           THEN /\ timespan = [beginning |-> Max({affiliation[i].beginning : i \in A}),
                               end |-> Min({affiliation[i].end : i \in A})]
                /\ \A q \in Orderings(A) : NarrowTimespan(q, 1, <<>>) = timespan
                /\ InInterval(week, timespan.beginning, timespan.end)
           ELSE /\ timespan = <<>>
                /\ \A o \in create_assignment(cleaningWeek, dutySwitch, s, week) :
                      /\ o.result # "created"
                      /\ open_position(cleaningWeek, dutySwitch, s, week).result = "open"
                             => o.result = "no-ratios"

\* a week with an Assignment in which two Affiliations of the Schedule are
\* active, the later beginning in one row and the earlier end in the other
C29_Witness ==
    \E k \in DOMAIN cleaningWeek : \E i, j \in active_in_week_for_schedule(k[2], k[1]) :
        /\ NrAssignments(cleaningWeek, k) > 0
        /\ affiliation[i].beginning < affiliation[j].beginning
        /\ affiliation[i].end < affiliation[j].end


\* the step is a save that can invalidate: Schedule.save, Affiliation.save or
\* TaskTemplate.save
InvalidationTrigger ==
    \/ \E s \in Schedules, f \in FREQUENCY_CHOICES, c \in CLEANERS_PER_DATE_CHOICES :
          ScheduleSave(s, f, c)
    \/ \E pk \in DOMAIN affiliation, b, e \in Weeks : AffiliationUpdate(pk, b, e)
    \/ \E t \in DOMAIN taskTemplate, d \in BOOLEAN : TaskTemplateSave(t, d)

\* the step is a create_assignment for the CleaningWeek k, alone or as one of
\* the calls of create_assignments_over_timespan
Visits(k) ==
    \/ FillOccurrence(k[1], k[2])
    \/ \E b, e \in Weeks : k[2] \in RangeWeeks(b, e) /\ FillRange(k[1], b, e)

\* the step is a DutySwitch.save that swaps an Assignment of the CleaningWeek k
SwapsIn(k) ==
    \E pk \in DOMAIN dutySwitch, a \in AssignmentIds(cleaningWeek) :
        /\ DutySwitchAccept(pk, a)
        /\ k \in {AssignmentWeek(dutySwitch[pk].requester_assignment), AssignmentWeek(a)}

\* the CleaningWeek k has a validity flag cleared
Invalidated(k) == ~cleaningWeek[k].assignments_valid \/ ~cleaningWeek[k].tasks_valid

\* the step leaves the Assignments of the CleaningWeek k as they are
AssignmentsKept(k) ==
    /\ k \in DOMAIN cleaningWeek'
    /\ cleaningWeek'[k].assignment_set = cleaningWeek[k].assignment_set

\* C30 as stated: a save that invalidates creates, deletes and re-binds no
\* Assignment, and every step that is not a create_assignment for an
\* invalidated CleaningWeek leaves the Assignments of that CleaningWeek as
\* they are.
C30_LazyInvalidation ==
    [][/\ (\A k \in DOMAIN cleaningWeek : AssignmentsKept(k)) \/ ~InvalidationTrigger
       /\ \A k \in DOMAIN cleaningWeek :
             Invalidated(k) => (AssignmentsKept(k) \/ Visits(k))]_vars

\* C30, amended: a save that invalidates creates, deletes and re-binds no
\* Assignment, and every step that is neither a create_assignment for an
\* invalidated CleaningWeek nor a DutySwitch.save that swaps one of its
\* Assignments leaves the Assignments of that CleaningWeek as they are.
C30_LazyUnlessSwapped ==
    [][/\ (\A k \in DOMAIN cleaningWeek : AssignmentsKept(k)) \/ ~InvalidationTrigger
       /\ \A k \in DOMAIN cleaningWeek :
             Invalidated(k) => (AssignmentsKept(k) \/ Visits(k) \/ SwapsIn(k))]_vars

\* an invalidated CleaningWeek still holds an Assignment while another
\* CleaningWeek of the Schedule is valid and filled
C30_Witness ==
    \E k, j \in DOMAIN cleaningWeek :
        /\ ~cleaningWeek[k].assignments_valid
        /\ NrAssignments(cleaningWeek, k) > 0
        /\ j # k
        /\ cleaningWeek[j].assignments_valid
        /\ NrAssignments(cleaningWeek, j) = schedule[j[1]].cleaners_per_date


\* C31: create_assignment for a CleaningWeek of an enabled Schedule in a week
\* it occurs in treats the two flags apart.  With tasks_valid = FALSE and
\* assignments_valid = TRUE it adds a Task for every enabled TaskTemplate that
\* has none, keeps every Task and every Assignment the week had (at most one
\* Assignment is added behind them) and deletes no DutySwitch.  With
\* assignments_valid = FALSE and tasks_valid = TRUE it deletes every
\* Assignment the week had (only the one it creates is left) and leaves the
\* Tasks as they are.
C31_FlagsIndependent ==
    \A k \in DOMAIN cleaningWeek :
        (~schedule[k[1]].disabled /\ occurs_in_week(k[1], k[2]))
        => LET row == cleaningWeek[k]
           IN \A o \in create_assignment(cleaningWeek, dutySwitch, k[1], k[2]) :
                 /\ (~row.tasks_valid /\ row.assignments_valid)
                    => /\ SubSeq(o.cw[k].task_set, 1, Len(row.task_set)) = row.task_set
                       /\ \A t \in task_templates_missing(cleaningWeek, k) :
                             Cardinality({i \in DOMAIN o.cw[k].task_set :
                                             o.cw[k].task_set[i] = t}) = 1
                       /\ o.cw[k].tasks_valid
                       /\ SubSeq(o.cw[k].assignment_set, 1, Len(row.assignment_set))
                             = row.assignment_set
                       /\ Len(o.cw[k].assignment_set) <= Len(row.assignment_set) + 1
                       /\ o.ds = dutySwitch
                 /\ (~row.assignments_valid /\ row.tasks_valid)
                    => /\ o.cw[k].task_set = row.task_set
                       /\ o.cw[k].assignment_set =
                             IF o.result = "created" THEN <<o.cleaner>> ELSE <<>>
                       /\ o.cw[k].assignments_valid

\* one filled week has only tasks_valid cleared and lacks the Task of an
\* enabled TaskTemplate, another filled week has only assignments_valid
\* cleared and holds a Task
C31_Witness ==
    \E k, j \in DOMAIN cleaningWeek :
        /\ ~schedule[k[1]].disabled /\ occurs_in_week(k[1], k[2])
        /\ ~cleaningWeek[k].tasks_valid /\ cleaningWeek[k].assignments_valid
        /\ NrAssignments(cleaningWeek, k) > 0
        /\ task_templates_missing(cleaningWeek, k) # {}
        /\ ~schedule[j[1]].disabled /\ occurs_in_week(j[1], j[2])
        /\ ~cleaningWeek[j].assignments_valid /\ cleaningWeek[j].tasks_valid
        /\ NrAssignments(cleaningWeek, j) > 0
        /\ Len(cleaningWeek[j].task_set) > 0


\* C32 as stated: in every state, for every week, the while loop of
\* create_assignments_over_timespan makes at most cleaners_per_date successful
\* calls of create_assignment and is then ended by a call that returns False,
\* and every successful call has left the CleaningWeek with
\* assignments_valid = TRUE and one Assignment more.
C32_LoopEndsWithFalse ==
    \A s \in Schedules, week \in Weeks :
        /\ \A r \in FillWeekCounted(cleaningWeek, dutySwitch, s, week, 0) :
              /\ r.calls <= schedule[s].cleaners_per_date
              /\ r.result \in {"disabled", "off-cycle", "full", "no-ratios"}
        /\ \A o \in create_assignment(cleaningWeek, dutySwitch, s, week) :
              o.result = "created"
              => LET p == open_position(cleaningWeek, dutySwitch, s, week)
                 IN /\ o.cw[<<s, week>>].assignments_valid
                    /\ NrAssignments(o.cw, <<s, week>>) = NrAssignments(p.cw, <<s, week>>) + 1


\* C33 as stated: in every reachable state no Cleaner holds two Assignments
\* of the same CleaningWeek.
C33_OneAssignmentPerCleaner ==
    \A k \in DOMAIN cleaningWeek :
        \A i, j \in DOMAIN cleaningWeek[k].assignment_set :
            cleaningWeek[k].assignment_set[i] = cleaningWeek[k].assignment_set[j] => i = j


\* C35: the first save of a new Affiliation and a save that changes only the
\* group of a stored one leave every CleaningWeek as it is, flags and
\* Assignments; and create_assignment on a CleaningWeek that has
\* assignments_valid = TRUE keeps every Assignment the week holds.
C35_CreateAndGroupChangeInvalidateNothing ==
    /\ [][(\/ \E c \in Cleaners, g \in Groups, b, e \in AffWeeks : AffiliationCreate(c, g, b, e)
           \/ \E pk \in DOMAIN affiliation, g \in Groups : AffiliationSetGroup(pk, g))
          => cleaningWeek' = cleaningWeek]_vars
    /\ [](\A k \in DOMAIN cleaningWeek :
             (/\ cleaningWeek[k].assignments_valid
              /\ ~schedule[k[1]].disabled
              /\ occurs_in_week(k[1], k[2]))
             => \A o \in create_assignment(cleaningWeek, dutySwitch, k[1], k[2]) :
                   SubSeq(o.cw[k].assignment_set, 1, NrAssignments(cleaningWeek, k))
                       = cleaningWeek[k].assignment_set)

\* a week is filled and still valid although the Cleaner of its Assignment is
\* now affiliated in that week to a ScheduleGroup without the Schedule, and
\* another Cleaner is affiliated in that week to a ScheduleGroup with it
C35_Witness ==
    \E k \in DOMAIN cleaningWeek : \E i, j \in DOMAIN affiliation :
        /\ cleaningWeek[k].assignments_valid
        /\ NrAssignments(cleaningWeek, k) > 0
        /\ affiliation[i].cleaner = cleaningWeek[k].assignment_set[1]
        /\ InInterval(k[2], affiliation[i].beginning, affiliation[i].end)
        /\ k[1] \notin GroupSchedules(affiliation[i].group)
        /\ affiliation[j].cleaner # affiliation[i].cleaner
        /\ j \in active_in_week_for_schedule(k[2], k[1])


\* the Assignments some DutySwitch has as its requester_assignment
Requested == {dutySwitch[pk].requester_assignment : pk \in DOMAIN dutySwitch}

\* no Cleaner has a switchable Assignment for a DutySwitch whose
\* requester_assignment has passed
PassedRequestsHaveNoTaker(utcoffset, dst) ==
    \A r \in Requested :
        has_passed(cleaningWeek, r, utcoffset, dst)
            => \A c \in Cleaners :
                  switchable_assignments_for_request(affiliation, cleaningWeek, c, r,
                                                     utcoffset, dst).assignments = {}

\* C34 as stated: in every zone, has_passed of an Assignment is TRUE exactly
\* when its assignment_date is before today and the window of every Task of
\* its CleaningWeek has elapsed (end_date < today); it is FALSE while the
\* window of some Task, completed or not, includes today; and for a DutySwitch
\* whose requester_assignment has passed no Cleaner has a switchable Assignment.
C34_PassedWhenEveryWindowElapsed ==
    \A u \in UtcOffsets, d \in DaylightSavings :
        /\ \A a \in AssignmentIds(cleaningWeek) :
              /\ has_passed(cleaningWeek, a, u, d)
                    <=> (/\ assignment_date(AssignmentWeek(a), u, d) < diary.today
                         /\ \A task \in TaskIds(cleaningWeek, AssignmentWeek(a)) :
                               Task_has_passed(task, u, d))
              /\ (\E task \in TaskIds(cleaningWeek, AssignmentWeek(a)) :
                     my_time_has_come(task, u, d))
                    => ~has_passed(cleaningWeek, a, u, d)
        /\ PassedRequestsHaveNoTaker(u, d)

\* C34 amended: in every zone, has_passed of an Assignment is TRUE exactly
\* when its assignment_date is before today and the window of every Task of
\* its CleaningWeek that is not yet completed has elapsed (end_date < today);
\* it is FALSE while the window of some Task that is not yet completed
\* includes today; and for a DutySwitch whose requester_assignment has passed
\* no Cleaner has a switchable Assignment.
C34_PassedWhenOpenWindowsElapsed ==
    \A u \in UtcOffsets, d \in DaylightSavings :
        /\ \A a \in AssignmentIds(cleaningWeek) :
              /\ has_passed(cleaningWeek, a, u, d)
                    <=> (/\ assignment_date(AssignmentWeek(a), u, d) < diary.today
                         /\ \A task \in TaskIds(cleaningWeek, AssignmentWeek(a)) :
                               NotCleaned(task) => Task_has_passed(task, u, d))
              /\ (\E task \in TaskIds(cleaningWeek, AssignmentWeek(a)) :
                     NotCleaned(task) /\ my_time_has_come(task, u, d))
                    => ~has_passed(cleaningWeek, a, u, d)
        /\ PassedRequestsHaveNoTaker(u, d)

\* a DutySwitch is open on an Assignment that has passed although the window
\* of a completed Task of its CleaningWeek still includes today, and another
\* Assignment of a later week and another Cleaner is there to be taken
C34_Witness ==
    \E r \in Requested :
        /\ has_passed(cleaningWeek, r, 0, 0)
        /\ \E task \in TaskIds(cleaningWeek, AssignmentWeek(r)) :
              ~NotCleaned(task) /\ my_time_has_come(task, 0, 0)
        /\ possible_acceptors(cleaningWeek, r) # {}

====
